---- MODULE Spec2Model ----
(***************************************************************************)
(* A model of the rings package's radial axis renderer (axis.go) and       *)
(* Bezier control-point generator (bezier.go).                             *)
(*                                                                         *)
(* Axis.drawAt is a state machine over the calls it makes on its           *)
(* collaborators (canvas, tick source, arc lookup); the calls are kept in  *)
(* the log `calls`, as a mock canvas would record them.                    *)
(* Bezier.ControlPoints is a state machine over its draws from the         *)
(* process-wide random source.  LengthDist.Perturb and FactorDist.Perturb  *)
(* are operators.                                                          *)
(*                                                                         *)
(* float64 and vg.Length values are exact rationals [n, d]; NaN and the    *)
(* infinities are not values of the model.  Angles are integers in units   *)
(* of an eighth of a turn (pi = 4 units).                                  *)
(***************************************************************************)
EXTENDS Integers, Sequences, FiniteSets, TLC

VARIABLES
    \* ---- Axis.drawAt ----
    r,        \* the receiver: the Axis configuration
    in,       \* the arguments: fs, inner, outer, min, max, and what the
              \* collaborators answer (ticks, defaultRot)
    pc,       \* position in drawAt
    locMap,   \* the keys of locMap the range loop has still to visit
    marks,    \* the local variable marks: <<>> is nil, <<ms>> is the slice ms
    err,      \* the location whose ArcOf lookup failed, or NoErr
    calls,    \* the canvas calls issued so far, in order
    \* ---- Bezier.ControlPoints ----
    b,        \* the receiver: the Bezier configuration
    a,        \* the argument a [2]Angle
    rad,      \* the argument rad [2]vg.Length
    rnd,      \* the random source: the samples it will hand out, in order
    bpc,      \* position in ControlPoints
    radius,   \* the local variable radius (a LengthDist copied from b.Radius)
    bisect,   \* the local variable bisect
    draws,    \* the draws made from the random source, in order
    proj,     \* the calls of Rectangular, in order: what for, angle, radius
    points,   \* the returned control points, << >> before the return
    \* ---- Perturb ----
    dist,     \* the receiver: a LengthDist or FactorDist
    f,        \* the argument f
    out       \* the result, <<>> before the call

axisVars == <<r, in, pc, locMap, marks, err, calls>>
bezVars == <<b, a, rad, rnd, bpc, radius, bisect, draws, proj, points>>
distVars == <<dist, f, out>>
vars == <<r, in, pc, locMap, marks, err, calls,
          b, a, rad, rnd, bpc, radius, bisect, draws, proj, points,
          dist, f, out>>

(***************************************************************************)
(* Exact rationals, for float64 and vg.Length.                             *)
(***************************************************************************)
Abs(x) == IF x < 0 THEN -x ELSE x

RECURSIVE GCD(_, _)
GCD(x, y) == IF y = 0 THEN x ELSE GCD(y, x % y)

\* The rational n/d in lowest terms with a positive denominator.
Rat(n, d) ==
    LET g == GCD(Abs(n), Abs(d))
        s == IF d < 0 THEN -1 ELSE 1
    IN  [n |-> s * (n \div g), d |-> s * (d \div g)]

Num(n) == [n |-> n, d |-> 1]
Zero == Num(0)
One == Num(1)

RAdd(x, y) == Rat(x.n * y.d + y.n * x.d, x.d * y.d)
RSub(x, y) == Rat(x.n * y.d - y.n * x.d, x.d * y.d)
RMul(x, y) == Rat(x.n * y.n, x.d * y.d)
RDiv(x, y) == Rat(x.n * y.d, x.d * y.n)
RLt(x, y) == x.n * y.d < y.n * x.d
RLe(x, y) == x.n * y.d <= y.n * x.d

\* The sequences over S of length at most n.
SeqsUpTo(S, n) == UNION {[1..k -> S] : k \in 0..n}

Nil == "nil"

(***************************************************************************)
(* Axis.drawAt: inputs.                                                    *)
(***************************************************************************)
\* The longest tick sequence the tick source returns.
MaxMarks == 2

\* draw.LineStyle values: no colour, no width, and a drawable style.
LineStyles ==
    {[Color |-> Nil, Width |-> 1], [Color |-> "black", Width |-> 0],
     [Color |-> "black", Width |-> 1]}

\* A TextPlacement field: unset (nil), or a rule and the rotation it
\* returns for the axis angle.
NoPlacement == [set |-> FALSE, rot |-> 0]
Placements == {NoPlacement, [set |-> TRUE, rot |-> 2]}

\* Feature locations; the arc lookup resolves those in Known.
Known == {"chr1", "chr2"}
FeatureLists == {<< >>, <<"chr1", "chr2", "chr1">>, <<"chr1", "chrUn">>}

\* inner, outer, min, max.
Geometries == {[inner |-> Zero, outer |-> Num(3), min |-> 0, max |-> 2]}

\* The tick marks a tick source may return for [min, max]: values below,
\* at the ends of and above the range, major and minor.
TickSet(mn, mx) ==
    {[Value |-> mn - 1, Minor |-> FALSE], [Value |-> mn, Minor |-> FALSE],
     [Value |-> mx, Minor |-> TRUE], [Value |-> mx + 1, Minor |-> FALSE]}

\* Axis labels: no text, no colour, and a drawable label.
LabelTexts ==
    {[Text |-> "", Color |-> "black"], [Text |-> "score", Color |-> Nil],
     [Text |-> "score", Color |-> "black"]}

\* Tick lines: each line style with a length, and a drawable style with none.
TickLines ==
    {[LineStyle |-> ls, Length |-> Num(3)] : ls \in LineStyles}
        \cup {[LineStyle |-> [Color |-> "black", Width |-> 1], Length |-> Zero]}

Axes ==
    {[Angle |-> 0,
      Label |-> [Text |-> l.Text, Color |-> l.Color, Placement |-> lp],
      LineStyle |-> ls,
      Tick |-> [Label |-> [Color |-> tc], LineStyle |-> t.LineStyle,
                Placement |-> tp, Length |-> t.Length],
      Grid |-> g] :
        l \in LabelTexts, lp \in Placements, ls \in LineStyles, t \in TickLines,
        tc \in {Nil, "black"}, tp \in Placements, g \in LineStyles}

(***************************************************************************)
(* Axis.drawAt: the conditions and computations of the body.               *)
(***************************************************************************)
\* One canvas call: the method, the step of drawAt that issued it, and for
\* a stroke or a tick label the location, the index of the mark in marks,
\* and the radius it is drawn at.
Call(op, kind, loc, mark, rd) ==
    [op |-> op, kind |-> kind, loc |-> loc, mark |-> mark, radius |-> rd]

\* Mutant of StyleSet: the width is not looked at.
StyleHasColor(ls) == ls.Color # Nil

\* A style is drawn with when it has a colour and a width.
StyleSet(ls) == ls.Color # Nil /\ ls.Width # 0

TickStyleSet(t) == StyleSet(t.LineStyle) /\ t.Length # Zero

LabelSet(l) == l.Text # "" /\ l.Color # Nil

\* Mutant of OutOfRange: the upper end is not checked.
BelowRange(v, mn, mx) == v < mn

\* The marks the range check skips.
OutOfRange(v, mn, mx) == v < mn \/ v > mx

scale == RDiv(RSub(in.outer, in.inner), Num(in.max - in.min))

MarkRadius(mark) == RAdd(RMul(Num(mark.Value - in.min), scale), in.inner)

\* What the arc lookup answers.
ArcOfFails(loc) == loc \notin Known

\* The rotation of the placement rule in force: the field's rule, or
\* DefaultPlacement when the field is nil.
Rotation(placement) == IF placement.set THEN placement.rot ELSE in.defaultRot

\* The grid loop over marks, for one location.
RECURSIVE GridArcs(_, _, _)
GridArcs(loc, ms, i) ==
    IF i > Len(ms) THEN << >>
    ELSE (IF OutOfRange(ms[i].Value, in.min, in.max) THEN << >>
          ELSE <<Call("Stroke", "grid", loc, i, MarkRadius(ms[i]))>>)
         \o GridArcs(loc, ms, i + 1)

\* Mutant of TickLabelCalls: the rotated branch does not restore the canvas.
TickLabelNoPop(i, rot) ==
    IF rot # 0
    THEN <<Call("Push", "ticklabel", "", i, Zero),
           Call("Translate", "ticklabel", "", i, Zero),
           Call("Rotate", "ticklabel", "", i, Zero),
           Call("Translate", "ticklabel", "", i, Zero),
           Call("FillText", "ticklabel", "", i, Zero)>>
    ELSE <<Call("FillText", "ticklabel", "", i, Zero)>>

\* A tick label: in a Push/Pop scope when it is rotated.
TickLabelCalls(i, rot) ==
    IF rot # 0
    THEN <<Call("Push", "ticklabel", "", i, Zero),
           Call("Translate", "ticklabel", "", i, Zero),
           Call("Rotate", "ticklabel", "", i, Zero),
           Call("Translate", "ticklabel", "", i, Zero),
           Call("FillText", "ticklabel", "", i, Zero),
           Call("Pop", "ticklabel", "", i, Zero)>>
    ELSE <<Call("FillText", "ticklabel", "", i, Zero)>>

\* The axis label, likewise.
AxisLabelCalls(rot) ==
    IF rot # 0
    THEN <<Call("Push", "label", "", 0, Zero),
           Call("Translate", "label", "", 0, Zero),
           Call("Rotate", "label", "", 0, Zero),
           Call("Translate", "label", "", 0, Zero),
           Call("FillText", "label", "", 0, Zero),
           Call("Pop", "label", "", 0, Zero)>>
    ELSE <<Call("FillText", "label", "", 0, Zero)>>

\* The tick loop over marks.
RECURSIVE TickCalls(_, _)
TickCalls(ms, i) ==
    IF i > Len(ms) THEN << >>
    ELSE (IF OutOfRange(ms[i].Value, in.min, in.max) THEN << >>
          ELSE <<Call("Stroke", "tick", "", i, MarkRadius(ms[i]))>>
               \o (IF ms[i].Minor \/ r.Tick.Label.Color = Nil THEN << >>
                   ELSE TickLabelCalls(i, Rotation(r.Tick.Placement))))
         \o TickCalls(ms, i + 1)

NoErr == ""

\* Mutant of Steps: the tick block comes before the spine block.
StepsTicksFirst == <<"grid", "tick", "spine", "label", "done">>

\* The blocks of drawAt, in the order of the source, and the one after s.
Steps == <<"grid", "spine", "tick", "label", "done">>

Following(s) == Steps[(CHOOSE i \in 1..Len(Steps) : Steps[i] = s) + 1]

(***************************************************************************)
(* Axis.drawAt: the steps.                                                 *)
(***************************************************************************)
AxisStart ==
    /\ r \in Axes
    /\ \E g \in Geometries, fs \in FeatureLists, rot \in {0, 2} :
         \E ticks \in SeqsUpTo(TickSet(g.min, g.max), MaxMarks) :
            in = [fs |-> fs, inner |-> g.inner, outer |-> g.outer,
                  min |-> g.min, max |-> g.max, ticks |-> ticks,
                  defaultRot |-> rot]
    /\ pc = "entry"
    /\ locMap = {}
    /\ marks = << >>
    /\ err = NoErr
    /\ calls = << >>

\* Where the grid loop goes on to.
GridNext(todo) == IF todo = {} THEN Following("grid") ELSE "grid"

\* The set of distinct feature locations is built.
Enter ==
    /\ pc = "entry"
    /\ locMap' = {in.fs[i] : i \in 1..Len(in.fs)}
    /\ pc' = IF StyleSet(r.Grid) THEN GridNext(locMap') ELSE Following("grid")
    /\ UNCHANGED <<r, in, marks, err, calls>>
    /\ UNCHANGED <<bezVars, distVars>>

\* Mutant of GridPanic: the unresolved location is skipped and the loop
\* goes on.
GridSkip ==
    /\ pc = "grid"
    /\ \E loc \in locMap :
          /\ loc \notin Known
          /\ err' = loc
          /\ locMap' = locMap \ {loc}
    /\ pc' = IF locMap' = {} THEN "spine" ELSE "grid"
    /\ UNCHANGED <<r, in, marks, calls>>
    /\ UNCHANGED <<bezVars, distVars>>

\* One pass of the grid loop whose lookup fails: drawAt panics.
GridPanic ==
    /\ pc = "grid"
    /\ \E loc \in locMap :
          /\ ArcOfFails(loc)
          /\ err' = loc
    /\ pc' = "panic"
    /\ UNCHANGED <<r, in, locMap, marks, calls>>
    /\ UNCHANGED <<bezVars, distVars>>

\* One pass of the grid loop, for a location in map order (any order).
GridLoc ==
    /\ pc = "grid"
    /\ \E loc \in locMap :
          /\ ~ArcOfFails(loc)
          /\ calls' = calls \o <<Call("SetLineStyle", "grid", loc, 0, Zero)>>
                            \o GridArcs(loc, in.ticks, 1)
          /\ locMap' = locMap \ {loc}
    /\ marks' = <<in.ticks>>
    /\ pc' = GridNext(locMap')
    /\ UNCHANGED <<r, in, err>>
    /\ UNCHANGED <<bezVars, distVars>>

Spine ==
    /\ pc = "spine"
    /\ calls' = IF StyleSet(r.LineStyle)
                THEN calls \o <<Call("SetLineStyle", "spine", "", 0, Zero),
                                Call("Stroke", "spine", "", 0, Zero)>>
                ELSE calls
    /\ pc' = Following("spine")
    /\ UNCHANGED <<r, in, locMap, marks, err>>
    /\ UNCHANGED <<bezVars, distVars>>

Ticks ==
    /\ pc = "tick"
    /\ IF TickStyleSet(r.Tick)
       THEN LET ms == IF marks = << >> THEN in.ticks ELSE marks[1]
            IN  /\ marks' = <<ms>>
                /\ calls' = calls \o <<Call("SetLineStyle", "tick", "", 0, Zero)>>
                                  \o TickCalls(ms, 1)
       ELSE UNCHANGED <<marks, calls>>
    /\ pc' = Following("tick")
    /\ UNCHANGED <<r, in, locMap, err>>
    /\ UNCHANGED <<bezVars, distVars>>

Label ==
    /\ pc = "label"
    /\ calls' = IF LabelSet(r.Label)
                THEN calls \o AxisLabelCalls(Rotation(r.Label.Placement))
                ELSE calls
    /\ pc' = Following("label")
    /\ UNCHANGED <<r, in, locMap, marks, err>>
    /\ UNCHANGED <<bezVars, distVars>>

(***************************************************************************)
(* LengthDist, FactorDist and their Perturb methods.  A *float64 field is  *)
(* << >> when nil and <<x>> when it points to x.                           *)
(***************************************************************************)
NilPtr == << >>

\* Mutant of LengthDistPerturb: a nil bound is read as 0.
LengthDistPerturbNilZero(p, x) ==
    IF p.Min = NilPtr /\ p.Max = NilPtr THEN p.Length
    ELSE LET min == IF p.Min # NilPtr THEN p.Min[1] ELSE Zero
             max == IF p.Max # NilPtr THEN p.Max[1] ELSE Zero
         IN  RMul(p.Length, RAdd(min, RMul(RSub(max, min), x)))

LengthDistPerturb(p, x) ==
    IF p.Min = NilPtr /\ p.Max = NilPtr THEN p.Length
    ELSE LET min == IF p.Min # NilPtr THEN p.Min[1] ELSE One
             max == IF p.Max # NilPtr THEN p.Max[1] ELSE One
         IN  RMul(p.Length, RAdd(min, RMul(RSub(max, min), x)))

FactorDistPerturb(p, x) ==
    IF p.Min = NilPtr /\ p.Max = NilPtr THEN p.Factor
    ELSE LET min == IF p.Min # NilPtr THEN p.Min[1] ELSE One
             max == IF p.Max # NilPtr THEN p.Max[1] ELSE One
         IN  RMul(p.Factor, RAdd(min, RMul(RSub(max, min), x)))

Half == Rat(1, 2)
Bounds == {NilPtr, <<Zero>>, <<Half>>, <<Rat(3, 2)>>}

DistStart ==
    /\ dist \in [Length : {Zero, Num(10), Num(-4)}, Min : Bounds, Max : Bounds]
                    \cup [Factor : {Zero, Num(10), Num(-4)}, Min : Bounds, Max : Bounds]
    /\ f \in {Zero, Half, One}
    /\ out = << >>

\* A call of LengthDist.Perturb.
LengthPerturb ==
    /\ out = << >>
    /\ "Length" \in DOMAIN dist
    /\ out' = <<LengthDistPerturb(dist, f)>>
    /\ UNCHANGED <<dist, f, axisVars, bezVars>>

\* A call of FactorDist.Perturb.
FactorPerturb ==
    /\ out = << >>
    /\ "Factor" \in DOMAIN dist
    /\ out' = <<FactorDistPerturb(dist, f)>>
    /\ UNCHANGED <<dist, f, axisVars, bezVars>>

(***************************************************************************)
(* Polar geometry.  Angles are integers in eighths of a turn; the cosine   *)
(* of such an angle is 0, 1, -1 or +-sqrt(2)/2, so a coordinate is         *)
(* q + s * sqrt(2)/2 with rational q and s, kept as [q, s].                *)
(***************************************************************************)
Pi == 4

\* cos(k * pi/4) as the pair <<q, s>>.
Cos8(k) ==
    CASE k % 8 = 0 -> <<1, 0>>
      [] k % 8 = 1 -> <<0, 1>>
      [] k % 8 = 2 -> <<0, 0>>
      [] k % 8 = 3 -> <<0, -1>>
      [] k % 8 = 4 -> <<-1, 0>>
      [] k % 8 = 5 -> <<0, -1>>
      [] k % 8 = 6 -> <<0, 0>>
      [] k % 8 = 7 -> <<0, 1>>

Sin8(k) == Cos8(k - 2)

Coord(c, rd) == [q |-> RMul(rd, Num(c[1])), s |-> RMul(rd, Num(c[2]))]

\* The point at angle theta and distance rd from the origin.
Rectangular(theta, rd) == [X |-> Coord(Cos8(theta), rd), Y |-> Coord(Sin8(theta), rd)]

\* The largest k with k * k <= n.
ISqrt(n) == CHOOSE k \in 0..n : k * k <= n /\ (k + 1) * (k + 1) > n

\* The square root of a rational, rounded down to a multiple of 1/d.
RSqrt(x) == Rat(ISqrt(x.n * x.d), x.d)

\* math.Hypot, of rational coordinates (the s parts are zero for points at
\* quarter turns).
Hypot(x, y) == RSqrt(RAdd(RMul(x, x), RMul(y, y)))

(***************************************************************************)
(* Bezier.ControlPoints.                                                   *)
(***************************************************************************)
\* Endpoint angles: quarter turns, so that halving their sum is exact;
\* within one turn of each other and further apart.
AngleSet == {-2, 0, 2, 6, 14}
RadSet == {Zero, Num(2)}
Samples == {Zero, Half}
LengthDists ==
    {[Length |-> x, Min |-> m[1], Max |-> m[2]] :
        x \in {Zero, Num(3)}, m \in {<<NilPtr, NilPtr>>, <<<<Half>>, <<Rat(3, 2)>>>>}}
FactorDists ==
    {[Factor |-> Half, Min |-> NilPtr, Max |-> NilPtr],
     [Factor |-> Num(2), Min |-> NilPtr, Max |-> NilPtr],
     [Factor |-> One, Min |-> <<Half>>, Max |-> <<Rat(3, 2)>>]}
Beziers ==
    [Radius : LengthDists,
     Crest : {NilPtr} \cup {<<d>> : d \in FactorDists},
     Purity : {NilPtr} \cup {<<d>> : d \in FactorDists}]

BezStart ==
    /\ b \in Beziers
    /\ a \in [0..1 -> AngleSet]
    /\ rad \in [0..1 -> RadSet]
    /\ rnd \in [1..3 -> Samples]
    /\ bpc = "entry"
    /\ radius = b.Radius
    /\ bisect = 0
    /\ draws = << >>
    /\ proj = << >>
    /\ points = << >>

\* rand.Float64(): the next sample of the source.
NextSample == rnd[Len(draws) + 1]

Draw(what, value) == [for |-> what, f |-> NextSample, value |-> value]

Proj(what, theta, rd) == [for |-> what, theta |-> theta, radius |-> rd]

\* The endpoints, as projected on entry.
EndPoint(i) == Rectangular(a[i], rad[i])

\* Half the length of p[0] + p[1]: the distance of the chord's middle from
\* the origin.
BisectRadius ==
    Hypot(RDiv(RAdd(EndPoint(0).X.q, EndPoint(1).X.q), Num(2)),
          RDiv(RAdd(EndPoint(0).Y.q, EndPoint(1).Y.q), Num(2)))

\* Mutant of Purified: the difference is taken the other way round.
PurifiedSwapped(len, pf) == RAdd(len, RMul(RSub(pf, One), RSub(BisectRadius, len)))

\* radius.Length after the purity adjustment by the factor pf.
Purified(len, pf) == RAdd(len, RMul(RSub(pf, One), RSub(len, BisectRadius)))

\* Mutant of Bisect: the simple average, whatever the difference.
BisectAverage(a0, a1) == (a1 + a0) \div 2

\* The angle of the middle control point.
Bisect(a0, a1) ==
    IF Abs(a1 - a0) > Pi
    THEN ((a0 + a1 + 2 * Pi) \div 2) - 2 * Pi
    ELSE (a1 + a0) \div 2

\* The radius of a crest shoulder, for the endpoint radius rd.
ShoulderRadius(rd, c) == RSub(rd, RMul(RSub(rd, radius.Length), c))

\* Mutant of ShoulderIndex: the shoulders land on the even slots.
ShoulderIndexEven(i) == 2 * i

\* The slot of the returned slice the shoulder of endpoint i goes to.
ShoulderIndex(i) == 2 * i + 1

\* The endpoints are projected.
Project ==
    /\ bpc = "entry"
    /\ proj' = proj \o <<Proj("p0", a[0], rad[0]), Proj("p1", a[1], rad[1])>>
    /\ bpc' = IF b.Purity # NilPtr THEN "purity" ELSE "mid"
    /\ UNCHANGED <<b, a, rad, rnd, radius, bisect, draws, points>>
    /\ UNCHANGED <<axisVars, distVars>>

\* Purity is set: one sample, and radius.Length moves.
Purify ==
    /\ bpc = "purity"
    /\ LET pf == FactorDistPerturb(b.Purity[1], NextSample)
       IN  /\ draws' = Append(draws, Draw("purity", pf))
           /\ radius' = [radius EXCEPT !.Length = Purified(radius.Length, pf)]
    /\ bpc' = "mid"
    /\ UNCHANGED <<b, a, rad, rnd, bisect, proj, points>>
    /\ UNCHANGED <<axisVars, distVars>>

\* Mutant of Middle: no sample is drawn when Radius has no bound to
\* perturb with.
MiddleLazy ==
    /\ bpc = "mid"
    /\ bisect' = Bisect(a[0], a[1])
    /\ IF radius.Min = NilPtr /\ radius.Max = NilPtr
       THEN /\ draws' = draws
            /\ proj' = Append(proj, Proj("mid", bisect', radius.Length))
       ELSE LET len == LengthDistPerturb(radius, NextSample)
            IN  /\ draws' = Append(draws, Draw("radius", len))
                /\ proj' = Append(proj, Proj("mid", bisect', len))
    /\ bpc' = "return"
    /\ UNCHANGED <<b, a, rad, rnd, radius, points>>
    /\ UNCHANGED <<axisVars, distVars>>

\* The middle control point: the bisecting angle and one sample.
Middle ==
    /\ bpc = "mid"
    /\ bisect' = Bisect(a[0], a[1])
    /\ LET len == LengthDistPerturb(radius, NextSample)
       IN  /\ draws' = Append(draws, Draw("radius", len))
           /\ proj' = Append(proj, Proj("mid", bisect', len))
    /\ bpc' = "return"
    /\ UNCHANGED <<b, a, rad, rnd, radius, points>>
    /\ UNCHANGED <<axisVars, distVars>>

Mid == Rectangular(proj[3].theta, proj[3].radius)

\* Crest is set: one sample, two shoulders, five points.
ReturnCrest ==
    /\ bpc = "return"
    /\ b.Crest # NilPtr
    /\ LET c == FactorDistPerturb(b.Crest[1], NextSample)
           cp(i) == Proj("cp", a[i], ShoulderRadius(rad[i], c))
           \* The slice literal, then the loop's two assignments.
           slot(j) == IF j = ShoulderIndex(1) THEN Rectangular(a[1], cp(1).radius)
                      ELSE IF j = ShoulderIndex(0) THEN Rectangular(a[0], cp(0).radius)
                      ELSE IF j = 0 THEN EndPoint(0)
                      ELSE IF j = 4 THEN EndPoint(1)
                      ELSE Mid
       IN  /\ draws' = Append(draws, Draw("crest", c))
           /\ proj' = proj \o <<cp(0), cp(1)>>
           /\ points' = [j \in 1..5 |-> slot(j - 1)]
    /\ bpc' = "done"
    /\ UNCHANGED <<b, a, rad, rnd, radius, bisect>>
    /\ UNCHANGED <<axisVars, distVars>>

\* Crest is nil: three points.
ReturnPlain ==
    /\ bpc = "return"
    /\ b.Crest = NilPtr
    /\ points' = <<EndPoint(0), Mid, EndPoint(1)>>
    /\ bpc' = "done"
    /\ UNCHANGED <<b, a, rad, rnd, radius, bisect, draws, proj>>
    /\ UNCHANGED <<axisVars, distVars>>

(***************************************************************************)
(* The specifications: one per operation, and Spec for any of them.        *)
(***************************************************************************)
AxisIdle ==
    /\ r = Nil /\ in = Nil /\ pc = "idle" /\ locMap = {} /\ marks = << >>
    /\ err = NoErr /\ calls = << >>

BezIdle ==
    /\ b = Nil /\ a = << >> /\ rad = << >> /\ rnd = << >> /\ bpc = "idle"
    /\ radius = Nil /\ bisect = 0 /\ draws = << >> /\ proj = << >> /\ points = << >>

DistIdle == dist = << >> /\ f = Zero /\ out = << >>

AxisInit == AxisStart /\ BezIdle /\ DistIdle
BezInit == AxisIdle /\ BezStart /\ DistIdle
DistInit == AxisIdle /\ BezIdle /\ DistStart
Init == AxisInit \/ BezInit \/ DistInit

AxisNext == Enter \/ GridPanic \/ GridLoc \/ Spine \/ Ticks \/ Label
BezNext == Project \/ Purify \/ Middle \/ ReturnCrest \/ ReturnPlain
DistNext == LengthPerturb \/ FactorPerturb
Next == AxisNext \/ BezNext \/ DistNext

SpecAxis == AxisInit /\ [][AxisNext]_vars
SpecBezier == BezInit /\ [][BezNext]_vars
SpecPerturb == DistInit /\ [][DistNext]_vars
Spec == Init /\ [][Next]_vars

(***************************************************************************)
(* Properties of Axis.drawAt, checked under SpecAxis.                      *)
(***************************************************************************)
CallIdx == 1..Len(calls)

\* The calls of one method issued by one block (for one location).
CallsOf(op, kind) == {k \in CallIdx : calls[k].op = op /\ calls[k].kind = kind}

\* The marks of the tick source that lie in [min, max].
InRangeMarks ==
    {i \in 1..Len(in.ticks) : in.min <= in.ticks[i].Value /\ in.ticks[i].Value <= in.max}

FeatureLocs == {in.fs[i] : i \in 1..Len(in.fs)}

GridIsSet == r.Grid.Color # Nil /\ r.Grid.Width # 0
SpineIsSet == r.LineStyle.Color # Nil /\ r.LineStyle.Width # 0
TicksAreSet ==
    r.Tick.LineStyle.Color # Nil /\ r.Tick.LineStyle.Width # 0 /\ r.Tick.Length # Zero
LabelIsSet == r.Label.Text # "" /\ r.Label.Color # Nil

\* The rank of a call's block in the order grid, spine, ticks, label.
BlockRank(kind) ==
    CASE kind = "grid" -> 1
      [] kind = "spine" -> 2
      [] kind \in {"tick", "ticklabel"} -> 3
      [] kind = "label" -> 4

\* C1: the canvas calls come in the order grid lines, spine line, tick
\* marks with their labels, axis label: no call of an earlier block follows
\* a call of a later one.
DrawOrder ==
    \A k \in CallIdx :
        k < Len(calls) => BlockRank(calls[k].kind) <= BlockRank(calls[k + 1].kind)

\* A finished drawAt that drew something in every block.
DrawOrderWitness ==
    /\ pc = "done"
    /\ CallsOf("Stroke", "grid") # {}
    /\ CallsOf("Stroke", "spine") # {}
    /\ CallsOf("Stroke", "tick") # {}
    /\ CallsOf("FillText", "ticklabel") # {}
    /\ CallsOf("FillText", "label") # {}

\* C2: a mark with value < min or > max produces no drawing call: every
\* grid arc, tick segment and tick label is for a mark in [min, max], and
\* the grid strokes of each resolved location and the tick strokes are as
\* many as the marks in [min, max].
OnlyMarksInRange ==
    /\ \A k \in CallIdx :
          calls[k].op # "SetLineStyle" /\ calls[k].kind \in {"grid", "tick", "ticklabel"}
              => calls[k].mark \in InRangeMarks
    /\ pc # "entry" /\ GridIsSet =>
          \A loc \in FeatureLocs \ locMap :
              Cardinality({k \in CallsOf("Stroke", "grid") : calls[k].loc = loc})
                  = Cardinality(InRangeMarks)
    /\ pc \in {"label", "done"} /\ TicksAreSet =>
          Cardinality(CallsOf("Stroke", "tick")) = Cardinality(InRangeMarks)

\* A finished drawAt with grid and ticks drawn, whose tick source returned
\* a mark in range and one out of range.
OnlyMarksInRangeWitness ==
    /\ pc = "done"
    /\ CallsOf("Stroke", "grid") # {}
    /\ CallsOf("Stroke", "tick") # {}
    /\ InRangeMarks # {}
    /\ InRangeMarks # 1..Len(in.ticks)

\* C3: once an arc lookup has failed drawAt has panicked and issues no
\* further canvas call; the log holds at most grid calls, those of the
\* locations resolved before.  A drawAt with the grid set and an unresolvable
\* location never gets past the grid block.
ArcFailureAborts ==
    /\ [](err # NoErr => pc = "panic" /\ \A k \in CallIdx : calls[k].kind = "grid")
    /\ [](pc # "entry" /\ GridIsSet /\ FeatureLocs \ Known # {}
              => pc \in {"grid", "panic"})
    /\ [][err # NoErr => calls' = calls]_vars

\* A panic after the grid arcs of another location were stroked.
ArcFailureAbortsWitness == pc = "panic" /\ CallsOf("Stroke", "grid") # {}

\* The rotation computed for a text call.
TextRotation(kind) ==
    LET pl == IF kind = "label" THEN r.Label.Placement ELSE r.Tick.Placement
    IN  IF pl.set THEN pl.rot ELSE in.defaultRot

Count(op) == Cardinality({k \in CallIdx : calls[k].op = op})

\* C4: Push and Pop nest: a Push is followed by Translate, Rotate,
\* Translate, one FillText and its Pop; every Pop closes such a Push; a text
\* is drawn in a Push/Pop scope exactly when its rotation is nonzero; and on
\* both exits, return and panic, there are as many Pops as Pushes.
PushPopNested ==
    /\ \A k \in CallIdx :
          calls[k].op = "Push" =>
              /\ k + 5 <= Len(calls)
              /\ <<calls[k + 1].op, calls[k + 2].op, calls[k + 3].op,
                   calls[k + 4].op, calls[k + 5].op>>
                     = <<"Translate", "Rotate", "Translate", "FillText", "Pop">>
    /\ \A k \in CallIdx : calls[k].op = "Pop" => k > 5 /\ calls[k - 5].op = "Push"
    /\ \A k \in CallIdx :
          calls[k].op = "FillText" =>
              (TextRotation(calls[k].kind) # 0 <=> (k > 4 /\ calls[k - 4].op = "Push"))
    /\ pc \in {"done", "panic"} => Count("Pop") = Count("Push")

\* A finished drawAt that drew a rotated tick label and a rotated axis label.
PushPopNestedWitness ==
    /\ pc = "done"
    /\ CallsOf("Push", "ticklabel") # {}
    /\ CallsOf("Push", "label") # {}

\* C5: with the grid style unset no grid call is issued and drawAt does not
\* panic, whatever the features; the spine, the ticks with their labels and
\* the axis label are drawn when their own styles are set.
UnsetGridIsSkipped ==
    (r.Grid.Color = Nil \/ r.Grid.Width = 0) =>
        /\ \A k \in CallIdx : calls[k].kind # "grid"
        /\ err = NoErr /\ pc # "panic"
        /\ pc = "done" =>
              /\ SpineIsSet => Cardinality(CallsOf("Stroke", "spine")) = 1
              /\ TicksAreSet =>
                    /\ Cardinality(CallsOf("Stroke", "tick")) = Cardinality(InRangeMarks)
                    /\ r.Tick.Label.Color # Nil =>
                          Cardinality(CallsOf("FillText", "ticklabel"))
                              = Cardinality({i \in InRangeMarks : ~in.ticks[i].Minor})
              /\ LabelIsSet => Cardinality(CallsOf("FillText", "label")) = 1

\* A finished drawAt with no grid colour and a feature at a location the arc
\* lookup does not know, that drew spine, ticks, a tick label and the label.
UnsetGridIsSkippedWitness ==
    /\ pc = "done"
    /\ r.Grid.Color = Nil
    /\ FeatureLocs \ Known # {}
    /\ CallsOf("Stroke", "spine") # {}
    /\ CallsOf("Stroke", "tick") # {}
    /\ CallsOf("FillText", "ticklabel") # {}
    /\ CallsOf("FillText", "label") # {}

(***************************************************************************)
(* Properties of Bezier.ControlPoints, checked under SpecBezier.           *)
(***************************************************************************)
\* C6: ControlPoints returns 3 points when Crest is nil and 5 when it is
\* set, and the first and the last are the projections of (a[0], rad[0])
\* and (a[1], rad[1]).
PointCount ==
    bpc = "done" =>
        /\ Len(points) = IF b.Crest = NilPtr THEN 3 ELSE 5
        /\ points[1] = Rectangular(a[0], rad[0])
        /\ points[Len(points)] = Rectangular(a[1], rad[1])

\* Five points, purity set, with shoulders away from the endpoints.
PointCountWitness ==
    /\ bpc = "done"
    /\ b.Crest # NilPtr /\ b.Purity # NilPtr
    /\ Len(points) = 5
    /\ points[2] # points[1] /\ points[4] # points[5] /\ points[1] # points[5]

\* The distributions of SpecPerturb.
DistBase == IF "Length" \in DOMAIN dist THEN dist.Length ELSE dist.Factor
DistMin == IF dist.Min = NilPtr THEN One ELSE dist.Min[1]
DistMax == IF dist.Max = NilPtr THEN One ELSE dist.Max[1]

\* C7 (under SpecPerturb): Perturb(f) is the base magnitude when Min and Max
\* are nil, and base * (min + (max - min) * f) with a nil bound read as 1
\* otherwise; with Min = 1/2, Max = 3/2 and base 10, Perturb(0) = 5 and
\* Perturb(1) = 15.
PerturbFormula ==
    out # << >> =>
        /\ dist.Min = NilPtr /\ dist.Max = NilPtr => out[1] = DistBase
        /\ dist.Min # NilPtr \/ dist.Max # NilPtr =>
              out[1] = RMul(DistBase, RAdd(DistMin, RMul(RSub(DistMax, DistMin), f)))
        /\ DistBase = Num(10) /\ dist.Min = <<Half>> /\ dist.Max = <<Rat(3, 2)>> =>
              /\ f = Zero => out[1] = Num(5)
              /\ f = One => out[1] = Num(15)

\* LengthDist{10, 1/2, 3/2}.Perturb(1) has returned 15.
PerturbFormulaWitness ==
    /\ "Length" \in DOMAIN dist
    /\ dist.Length = Num(10) /\ dist.Min = <<Half>> /\ dist.Max = <<Rat(3, 2)>>
    /\ f = One
    /\ out = <<Num(15)>>

AngleDiff == Abs(a[1] - a[0])

\* m is, modulo a full turn, the angle midway along the shorter arc between
\* a[0] and a[1] (either of the two when they are opposite).
MidwayOnShorterArc(m) ==
    LET d == (a[1] - a[0]) % (2 * Pi)
    IN  \/ d <= Pi /\ (2 * (m - a[0])) % (2 * Pi) = d % (2 * Pi) /\ (m - a[0]) % (2 * Pi) <= Pi \div 2
        \/ d >= Pi /\ (2 * (m - a[1])) % (2 * Pi) = (2 * Pi - d) % (2 * Pi)
                   /\ (m - a[1]) % (2 * Pi) <= Pi \div 2

\* The bisecting angle is the simple average for differences up to pi and
\* the average less the full-turn adjustment beyond.
BisectValue ==
    /\ AngleDiff <= Pi => 2 * bisect = a[0] + a[1]
    /\ AngleDiff > Pi => 2 * (bisect + 2 * Pi) = a[0] + a[1] + 2 * Pi

\* C8 as stated: for every pair of angles the bisecting angle is as in
\* BisectValue and, modulo a full turn, midway along the shorter arc.
BisectOnShorterArc ==
    bpc \in {"return", "done"} => BisectValue /\ MidwayOnShorterArc(bisect)

\* C8 as amended: the value is as stated for every pair; it is midway along
\* the shorter arc when the angles differ by at most 3 pi.
BisectOnShorterArcNear ==
    bpc \in {"return", "done"} =>
        /\ BisectValue
        /\ AngleDiff <= 3 * Pi => MidwayOnShorterArc(bisect)

\* A pair of angles more than pi and less than 3 pi apart has been bisected.
BisectOnShorterArcNearWitness ==
    /\ bpc = "done"
    /\ AngleDiff > Pi /\ AngleDiff < 3 * Pi
    /\ bisect < 0

\* The preconditions of C9.
AxisGeometryOk ==
    RLe(Zero, in.inner) /\ RLe(in.inner, in.outer) /\ in.min < in.max

NonNegBound(p) == p = NilPtr \/ RLe(Zero, p[1])

NonNegFactor(p) ==
    p = NilPtr \/ (RLe(Zero, p[1].Factor) /\ NonNegBound(p[1].Min) /\ NonNegBound(p[1].Max))

BezierInputOk ==
    /\ RLe(Zero, rad[0]) /\ RLe(Zero, rad[1])
    /\ RLe(Zero, b.Radius.Length)
    /\ NonNegBound(b.Radius.Min) /\ NonNegBound(b.Radius.Max)
    /\ NonNegFactor(b.Crest) /\ NonNegFactor(b.Purity)

AxisRadiiNonNeg ==
    \A k \in CallIdx :
        calls[k].op = "Stroke" /\ calls[k].kind \in {"grid", "tick"}
            => RLe(Zero, calls[k].radius)

BezierRadiiNonNeg ==
    \A k \in 1..Len(proj) : proj[k].for \in {"mid", "cp"} => RLe(Zero, proj[k].radius)

\* The purity and crest factors applied so far are at most 1.
FactorsAtMostOne ==
    \A k \in 1..Len(draws) : draws[k].for \in {"purity", "crest"} => RLe(draws[k].value, One)

\* C9 as stated (under Spec): with non-negative inputs and multipliers every
\* radius projected by ControlPoints is >= 0, and with 0 <= inner <= outer
\* and min < max every grid arc and tick of drawAt is at a radius >= 0.
RadiiNonNegative ==
    /\ pc # "idle" /\ AxisGeometryOk => AxisRadiiNonNeg
    /\ bpc # "idle" /\ BezierInputOk => BezierRadiiNonNeg

\* C9 as amended: the same, for calls of ControlPoints whose applied purity
\* and crest factors are at most 1.
RadiiNonNegativeUpToOne ==
    /\ pc # "idle" /\ AxisGeometryOk => AxisRadiiNonNeg
    /\ bpc # "idle" /\ BezierInputOk /\ FactorsAtMostOne => BezierRadiiNonNeg

\* Five points returned with purity and crest factors applied, both at most
\* 1 and the purity factor below 1, from endpoints away from the origin.
RadiiNonNegativeUpToOneWitness ==
    /\ bpc = "done"
    /\ Len(draws) = 3 /\ FactorsAtMostOne
    /\ RLt(draws[1].value, One)
    /\ RLt(Zero, rad[0]) /\ RLt(Zero, rad[1])
    /\ Len(proj) = 5

\* The draws ControlPoints makes, in order.
ExpectedDraws ==
    (IF b.Purity # NilPtr THEN <<"purity">> ELSE << >>)
        \o <<"radius">>
        \o (IF b.Crest # NilPtr THEN <<"crest">> ELSE << >>)

\* C10: a call draws 1 + (1 if Purity is set) + (1 if Crest is set) samples,
\* in the order purity, radius, crest, each the next sample of the source;
\* the radius sample is drawn on every call.
SampleOrder ==
    /\ Len(draws) <= Len(ExpectedDraws)
    /\ \A k \in 1..Len(draws) : draws[k].for = ExpectedDraws[k] /\ draws[k].f = rnd[k]
    /\ bpc \in {"return", "done"} => \E k \in 1..Len(draws) : draws[k].for = "radius"
    /\ bpc = "done" => Len(draws) = Len(ExpectedDraws)

\* Three draws, by a Bezier whose Radius has neither Min nor Max.
SampleOrderWitness ==
    /\ bpc = "done"
    /\ Len(draws) = 3
    /\ b.Radius.Min = NilPtr /\ b.Radius.Max = NilPtr

====
